---- MODULE Spec2Model ----
(***************************************************************************)
(* Face verification service (app2.py): one-time loading of the golden     *)
(* face encoding at import time, then the three Flask routes "/",          *)
(* "/taunting" and "/verify".  The face_recognition library is modelled by *)
(* what its three calls do with the data handed to them: a payload says    *)
(* whether it decodes, whether the detector accepts it and which face      *)
(* encodings it holds; compare_faces is the distance test against the      *)
(* library tolerance.                                                      *)
(***************************************************************************)
EXTENDS Integers, Sequences, FiniteSets, TLC

\* Largest number of faces in one image.
MaxFaces == 2

\* ------------------------------------------------------------------------
\* Values
\* ------------------------------------------------------------------------

\* Python's None for golden_face_encoding; an encoding is never empty.
None == <<>>

\* Face encodings, in units of 0.1.  The first two have the shape the
\* library produces, the third has another shape (cannot be broadcast).
Encodings == { <<0>>, <<10>>, <<0, 0>> }

\* face_recognition's default tolerance 0.6, in units of 0.1.
Tolerance == 6

NoExc == [cls |-> "", msg |-> ""]

FaceLists == UNION { [1..n -> Encodings] : n \in 0..MaxFaces }

\* Byte strings: what the library finds in them.
Garbage == [decodable |-> FALSE, detectable |-> TRUE, faces |-> <<>>]

Unsupported == [decodable |-> TRUE, detectable |-> FALSE, faces |-> <<>>]

Payloads ==
    {Garbage, Unsupported}
      \cup { [decodable |-> TRUE, detectable |-> TRUE, faces |-> f] : f \in FaceLists }

\* The files on disk next to app2.py.
FileSystems ==
    { fs \in [face_data : BOOLEAN, golden_exists : BOOLEAN,
              golden_bytes : Payloads, templates : BOOLEAN] :
        /\ fs.golden_exists => fs.face_data
        /\ ~fs.golden_exists => fs.golden_bytes = Garbage }

\* request.files as a set of <<field name, bytes>> pairs.
VerifyRequests ==
    { [route |-> "/verify", files |-> {}] }
      \cup { [route |-> "/verify", files |-> {<<"image", b>>}] : b \in Payloads }
      \cup { [route |-> "/verify", files |-> {<<"photo", b>>}] : b \in {Garbage, Unsupported} }

NoRequest == [route |-> "", files |-> {}]

AllRoutes == {"/", "/taunting", "/verify"}

\* ------------------------------------------------------------------------
\* The face_recognition library and Flask helpers
\* ------------------------------------------------------------------------

Raise(cls, msg) == [exc |-> [cls |-> cls, msg |-> msg], val |-> <<>>]

Return(v) == [exc |-> NoExc, val |-> v]

Raised(r) == r.exc # NoExc

\* face_recognition.load_image_file(path or stream)
load_image_file(exists, bytes) ==
    IF ~exists THEN Raise("FileNotFoundError", "No such file or directory")
    ELSE IF ~bytes.decodable THEN Raise("UnidentifiedImageError", "cannot identify image file")
    ELSE Return([detectable |-> bytes.detectable, faces |-> bytes.faces])

\* face_recognition.face_encodings(image)
face_encodings(image) ==
    IF ~image.detectable THEN Raise("RuntimeError", "Unsupported image type")
    ELSE Return(image.faces)

RECURSIVE SumSq(_, _, _)
SumSq(a, b, i) ==
    IF i > Len(a) THEN 0
    ELSE (a[i] - b[i]) * (a[i] - b[i]) + SumSq(a, b, i + 1)

\* face_recognition.compare_faces(known_face_encodings, face_encoding_to_check)
compare_faces(known, probe) ==
    IF \E k \in 1..Len(known) : Len(known[k]) # Len(probe)
    THEN Raise("ValueError", "operands could not be broadcast together")
    ELSE Return([k \in 1..Len(known) |->
                    SumSq(known[k], probe, 1) <= Tolerance * Tolerance])

\* The classes "except Exception" catches.
IsException(exc) ==
    exc.cls \in {"FileNotFoundError", "UnidentifiedImageError", "RuntimeError",
                 "ValueError", "IndexError", "TemplateNotFound"}

\* flask.render_template(name)
render_template(fs, name) ==
    IF fs.templates THEN Return([code |-> 200, body |-> [page |-> name]])
    ELSE Raise("TemplateNotFound", name)

\* jsonify(body), status
Json(body, code) == [code |-> code, body |-> body]

\* What a handler hands back to Flask: a response, or an exception that
\* left the handler.
Responds(resp, calls) == [exc |-> NoExc, resp |-> resp, calls |-> calls]

Escapes(exc, calls) == [exc |-> exc, resp |-> Json([status |-> "none"], 0), calls |-> calls]

NoResult == Responds(Json([status |-> "none"], 0), <<>>)

\* ------------------------------------------------------------------------
\* Module initialisation
\* ------------------------------------------------------------------------

init_except_M(exc) == exc.cls = "FileNotFoundError"

\* "except Exception as e" closing the initialisation block.
init_except(exc) == IsException(exc)

init_pick_M(all_encodings) ==
    IF all_encodings = <<>> THEN None ELSE all_encodings[Len(all_encodings)]

\* The descriptor the initialisation keeps from the encodings found.
init_pick(all_encodings) ==
    IF all_encodings = <<>> THEN None ELSE all_encodings[1]

\* The try block at import time: the descriptor it leaves and the exception
\* that leaves the block, if any.
init_module(fs) ==
    LET golden_image_file == load_image_file(fs.golden_exists, fs.golden_bytes)
        all_encodings == face_encodings(golden_image_file.val)
        raised == IF Raised(golden_image_file) THEN golden_image_file.exc
                  ELSE IF Raised(all_encodings) THEN all_encodings.exc
                  ELSE NoExc
    IN  IF raised # NoExc
        THEN [golden |-> None,
              escaped |-> IF init_except(raised) THEN NoExc ELSE raised]
        ELSE [golden |-> init_pick(all_encodings.val), escaped |-> NoExc]

\* ------------------------------------------------------------------------
\* Route handlers
\* ------------------------------------------------------------------------

home(fs) ==
    LET page == render_template(fs, "index.html")
    IN  IF Raised(page) THEN Escapes(page.exc, <<>>) ELSE Responds(page.val, <<>>)

taunting_page(fs) ==
    LET page == render_template(fs, "taunting.html")
    IN  IF Raised(page) THEN Escapes(page.exc, <<>>) ELSE Responds(page.val, <<>>)

HasImage(request) == \E f \in request.files : f[1] = "image"

ImageOf(request) == (CHOOSE f \in request.files : f[1] = "image")[2]

match_except_M(exc) == exc.cls = "ValueError"

\* "except Exception as e" closing the comparison block.
match_except(exc) == IsException(exc)

match_first_M(unknown_face_encodings) ==
    IF unknown_face_encodings = <<>>
    THEN Raise("IndexError", "list index out of range")
    ELSE Return(unknown_face_encodings[Len(unknown_face_encodings)])

\* unknown_face_encodings[0]: the probe face that is compared.
match_first(unknown_face_encodings) ==
    IF unknown_face_encodings = <<>>
    THEN Raise("IndexError", "list index out of range")
    ELSE Return(unknown_face_encodings[1])

match_empty_M(unknown_face_encodings) == FALSE

\* "if not unknown_face_encodings"
match_empty(unknown_face_encodings) == unknown_face_encodings = <<>>

\* Second try block of verify_face: encode the probe and compare.
match_probe(unknown_image, golden) ==
    LET unknown_face_encodings == face_encodings(unknown_image)
        first == match_first(unknown_face_encodings.val)
        results == compare_faces(<<golden>>, first.val)
        caught(exc, calls) ==
            IF match_except(exc)
            THEN Responds(Json([status |-> "failure", error |-> exc.msg], 200), calls)
            ELSE Escapes(exc, calls)
    IN  IF Raised(unknown_face_encodings)
        THEN caught(unknown_face_encodings.exc, <<"load_image_file", "face_encodings">>)
        ELSE IF match_empty(unknown_face_encodings.val)
        THEN Responds(Json([status |-> "failure", error |-> "No face detected"], 200),
                      <<"load_image_file", "face_encodings">>)
        ELSE IF Raised(first)
        THEN caught(first.exc, <<"load_image_file", "face_encodings">>)
        ELSE IF Raised(results)
        THEN caught(results.exc, <<"load_image_file", "face_encodings", "compare_faces">>)
        ELSE IF results.val[1] = TRUE
        THEN Responds(Json([status |-> "success"], 200),
                      <<"load_image_file", "face_encodings", "compare_faces">>)
        ELSE Responds(Json([status |-> "failure"], 200),
                      <<"load_image_file", "face_encodings", "compare_faces">>)

decode_probe_M(bytes, golden) ==
    LET unknown_image == load_image_file(TRUE, bytes)
    IN  IF Raised(unknown_image)
        THEN Responds(Json([status |-> "failure", error |-> unknown_image.exc.msg], 200),
                      <<"load_image_file">>)
        ELSE match_probe(unknown_image.val, golden)

\* First try block of verify_face: read and decode the upload.
decode_probe(bytes, golden) ==
    LET unknown_image == load_image_file(TRUE, bytes)
    IN  IF Raised(unknown_image)
        THEN IF IsException(unknown_image.exc)
             THEN Responds(Json([status |-> "failure",
                                 error |-> "Could not process image"], 400),
                           <<"load_image_file">>)
             ELSE Escapes(unknown_image.exc, <<"load_image_file">>)
        ELSE match_probe(unknown_image.val, golden)

check_ready_M(golden) == FALSE

\* "if golden_face_encoding is None"
check_ready(golden) == golden = None

check_order_M(request, golden) ==
    IF check_ready(golden)
    THEN Responds(Json([status |-> "failure", error |-> "Server not ready"], 500), <<>>)
    ELSE IF ~HasImage(request)
    THEN Responds(Json([status |-> "failure", error |-> "No image file found"], 400), <<>>)
    ELSE decode_probe(ImageOf(request), golden)

\* The two early returns of verify_face, then the two try blocks.
check_order(request, golden) ==
    IF ~HasImage(request)
    THEN Responds(Json([status |-> "failure", error |-> "No image file found"], 400), <<>>)
    ELSE IF check_ready(golden)
    THEN Responds(Json([status |-> "failure", error |-> "Server not ready"], 500), <<>>)
    ELSE decode_probe(ImageOf(request), golden)

verify_face_M(request, golden) ==
    LET r == check_order(request, golden)
    IN  [result |-> r,
         golden |-> IF r.resp.body = [status |-> "success"]
                    THEN ImageOf(request).faces[Len(ImageOf(request).faces)]
                    ELSE golden]

verify_face_N(request, golden) ==
    LET r == check_order(request, golden)
    IN  [result |-> r,
         golden |-> IF r.resp.body = [status |-> "failure"] THEN None ELSE golden]

\* POST /verify: the result handed to Flask and the module-level
\* golden_face_encoding after the call (the handler only reads it).
verify_face(request, golden) ==
    [result |-> check_order(request, golden), golden |-> golden]

\* ------------------------------------------------------------------------
\* State machine
\* ------------------------------------------------------------------------

VARIABLES
    fs,                     \* files on disk (read-only input)
    pc,                     \* "start", "serving" or "aborted"
    routes,                 \* routes registered with the Flask app
    golden_face_encoding,   \* module-level descriptor
    request,                \* the request handled last
    result,                 \* what its handler handed back
    earlier                 \* history: one earlier /verify request and its result

vars == <<fs, pc, routes, golden_face_encoding, request, result, earlier>>

Init ==
    /\ fs \in FileSystems
    /\ pc = "start"
    /\ routes = {}
    /\ golden_face_encoding = None
    /\ request = NoRequest
    /\ result = NoResult
    /\ earlier = {}

\* Importing app2.py: the initialisation block, then the route decorators.
Initialize ==
    /\ pc = "start"
    /\ LET r == init_module(fs)
       IN  /\ golden_face_encoding' = r.golden
           /\ pc' = IF r.escaped = NoExc THEN "serving" ELSE "aborted"
           /\ routes' = IF r.escaped = NoExc THEN AllRoutes ELSE {}
    /\ UNCHANGED <<fs, request, result, earlier>>

HomeStep ==
    /\ pc = "serving"
    /\ "/" \in routes
    /\ request' = [route |-> "/", files |-> {}]
    /\ result' = home(fs)
    /\ UNCHANGED <<fs, pc, routes, golden_face_encoding>>

TauntingStep ==
    /\ pc = "serving"
    /\ "/taunting" \in routes
    /\ request' = [route |-> "/taunting", files |-> {}]
    /\ result' = taunting_page(fs)
    /\ UNCHANGED <<fs, pc, routes, golden_face_encoding>>

VerifyFaceStep ==
    /\ pc = "serving"
    /\ "/verify" \in routes
    /\ \E req \in VerifyRequests :
          LET r == verify_face(req, golden_face_encoding)
          IN  /\ request' = req
              /\ result' = r.result
              /\ golden_face_encoding' = r.golden
    /\ UNCHANGED <<fs, pc, routes>>

Home == HomeStep /\ UNCHANGED earlier

Taunting == TauntingStep /\ UNCHANGED earlier

VerifyFace == VerifyFaceStep /\ UNCHANGED earlier

Next == Initialize \/ Home \/ Taunting \/ VerifyFace

Spec == Init /\ [][Next]_vars

\* The same server observed with a history variable: "earlier" is filled
\* once, at a step of its choosing, with the exchange that was the last one
\* before that step, and keeps it from then on; "others" tells that a
\* different request was handled after it.
Remember ==
    IF earlier # {}
    THEN earlier' = { [e EXCEPT !.others = e.others \/ request' # e.request] :
                        e \in earlier }
    ELSE \/ earlier' = {}
         \/ /\ request.route = "/verify"
            /\ earlier' = { [request |-> request, result |-> result,
                             others |-> request' # request] }

HomeSeen == HomeStep /\ Remember

TauntingSeen == TauntingStep /\ Remember

VerifyFaceSeen == VerifyFaceStep /\ Remember

NextSeen == Initialize \/ HomeSeen \/ TauntingSeen \/ VerifyFaceSeen

SpecSeen == Init /\ [][NextSeen]_vars

\* ------------------------------------------------------------------------
\* Properties
\* ------------------------------------------------------------------------

Verified == pc = "serving" /\ request.route = "/verify"

Uploaded == Verified /\ HasImage(request)

Probe == ImageOf(request)

NoImageFound == Json([status |-> "failure", error |-> "No image file found"], 400)

NotProcessed == Json([status |-> "failure", error |-> "Could not process image"], 400)

NotReady == Json([status |-> "failure", error |-> "Server not ready"], 500)

NoFace == Json([status |-> "failure", error |-> "No face detected"], 200)

Matched == Json([status |-> "success"], 200)

NotMatched == Json([status |-> "failure"], 200)

\* C1: a /verify request without an 'image' file field is answered with
\* {status: failure, error: 'No image file found'} and status 400, whether
\* or not the reference descriptor is set.
C1_MissingImage ==
    (Verified /\ ~HasImage(request)) => result = Responds(NoImageFound, <<>>)

C1_Witness ==
    /\ Verified
    /\ request.files # {}
    /\ ~HasImage(request)
    /\ golden_face_encoding = None
    /\ result.resp.code = 400

\* C2 as stated: an upload that cannot be decoded is answered with
\* 'Could not process image' and status 400 whatever the state of the
\* reference descriptor.
C2_Original ==
    (Uploaded /\ ~Probe.decodable) => result = Responds(NotProcessed, <<"load_image_file">>)

\* C2 amended: with the reference descriptor set, an upload that cannot be
\* decoded is answered with 'Could not process image' and status 400; with
\* the descriptor unset the same upload is answered 'Server not ready', 500.
C2_Undecodable ==
    (Uploaded /\ ~Probe.decodable) =>
        result = IF golden_face_encoding # None
                 THEN Responds(NotProcessed, <<"load_image_file">>)
                 ELSE Responds(NotReady, <<>>)

C2_Witness ==
    /\ Uploaded
    /\ ~Probe.decodable
    /\ golden_face_encoding # None
    /\ result.resp = NotProcessed

\* C3 as stated: with the reference descriptor unset every /verify request,
\* whatever it carries, is answered 'Server not ready' with status 500 and
\* makes no library call.
C3_Original ==
    (Verified /\ golden_face_encoding = None) => result = Responds(NotReady, <<>>)

\* C3 amended: with the reference descriptor unset every /verify request
\* that carries an 'image' field is answered 'Server not ready' with status
\* 500 (one without the field is answered 'No image file found', 400), and
\* no /verify request decodes, encodes or compares.
C3_NotReady ==
    (Verified /\ golden_face_encoding = None) =>
        /\ result.calls = <<>>
        /\ result = IF HasImage(request)
                    THEN Responds(NotReady, <<>>)
                    ELSE Responds(NoImageFound, <<>>)

C3_Witness ==
    /\ Uploaded
    /\ golden_face_encoding = None
    /\ Probe.decodable /\ Probe.detectable /\ Probe.faces # <<>>
    /\ result.resp = NotReady

\* C4: with the reference descriptor set, a decodable upload in which the
\* library finds no face is answered 'No face detected' with status 200,
\* and compare_faces is not called.
C4_NoFace ==
    (/\ Uploaded
     /\ golden_face_encoding # None
     /\ Probe.decodable /\ Probe.detectable /\ Probe.faces = <<>>) =>
        /\ result.exc = NoExc
        /\ result.resp = NoFace
        /\ \A i \in 1..Len(result.calls) : result.calls[i] # "compare_faces"

C4_Witness ==
    /\ Uploaded
    /\ golden_face_encoding # None
    /\ Probe.decodable /\ Probe.detectable /\ Probe.faces = <<>>
    /\ result.resp = NoFace

\* The library's same-identity answer for the first face of the upload.
FirstFaceResult == compare_faces(<<golden_face_encoding>>, Probe.faces[1])

FacesFound ==
    /\ Uploaded
    /\ golden_face_encoding # None
    /\ Probe.decodable /\ Probe.detectable /\ Probe.faces # <<>>

\* C5: with the reference descriptor set and one or more faces found in the
\* upload, the verdict follows the library's same-identity result for the
\* first face only: success when it is true, failure without an error field
\* when it is false, both with status 200; uploads that agree on the first
\* face get the same verdict.
C5_FirstFace ==
    (FacesFound /\ ~Raised(FirstFaceResult)) =>
        /\ result.exc = NoExc
        /\ result.resp = IF FirstFaceResult.val[1] THEN Matched ELSE NotMatched
        /\ \A q \in VerifyRequests :
              (/\ HasImage(q)
               /\ ImageOf(q).decodable /\ ImageOf(q).detectable
               /\ ImageOf(q).faces # <<>>
               /\ ImageOf(q).faces[1] = Probe.faces[1]) =>
                  verify_face(q, golden_face_encoding).result.resp = result.resp

C5_Witness ==
    /\ FacesFound
    /\ Len(Probe.faces) = 2
    /\ Probe.faces[1] = golden_face_encoding
    /\ Probe.faces[2] # Probe.faces[1]
    /\ Len(Probe.faces[2]) = Len(Probe.faces[1])
    /\ result.resp = Matched

\* C6: an exception the library raises while encoding the upload or while
\* comparing is answered with {status: failure, error: <message>} and
\* status 200; no exception leaves verify_face, which always hands back one
\* response.
C6_InternalError ==
    /\ Verified => (result.exc = NoExc /\ result.resp.code \in {200, 400, 500})
    /\ (/\ Uploaded
        /\ golden_face_encoding # None
        /\ Probe.decodable
        /\ ~Probe.detectable) =>
            result.resp = Json([status |-> "failure",
                                error |-> face_encodings(Probe).exc.msg], 200)
    /\ (FacesFound /\ Raised(FirstFaceResult)) =>
            result.resp = Json([status |-> "failure",
                                error |-> FirstFaceResult.exc.msg], 200)

C6_Witness ==
    /\ FacesFound
    /\ Raised(FirstFaceResult)
    /\ result.resp.code = 200
    /\ result.resp.body.error = "operands could not be broadcast together"

\* C7: the reference descriptor is written at most once, by the
\* initialisation; once the server is serving, or once the descriptor is
\* set, no step changes it.
C7_Immutable ==
    [][(pc = "serving" \/ golden_face_encoding # None)
          => golden_face_encoding' = golden_face_encoding]_vars

C7_Witness ==
    /\ Uploaded
    /\ golden_face_encoding # None
    /\ Len(Probe.faces) = 2
    /\ result.resp = NotMatched

\* C8: the same /verify request gets the same body and status every time it
\* is issued, whatever was requested in between.
C8_Idempotent ==
    \A e \in earlier : (Verified /\ e.request = request) => e.result = result

C8_Witness ==
    /\ Verified
    /\ result.resp = Matched
    /\ \E e \in earlier : e.request = request /\ e.others

Started == pc # "start"

PageRequest == request.route \in {"/", "/taunting"}

C10_Golden ==
    Started =>
        golden_face_encoding =
            IF /\ fs.golden_exists
               /\ fs.golden_bytes.decodable
               /\ fs.golden_bytes.detectable
               /\ fs.golden_bytes.faces # <<>>
            THEN fs.golden_bytes.faces[1]
            ELSE None

C10_Witness ==
    /\ pc = "serving"
    /\ Len(fs.golden_bytes.faces) = 2
    /\ fs.golden_bytes.faces[1] # fs.golden_bytes.faces[2]
    /\ golden_face_encoding = fs.golden_bytes.faces[1]

====
